---- MODULE Spec2Model ----
(***************************************************************************)
(* libhip: the HIP image codec (src/libhip/hip.py) as a state machine.     *)
(* A HIPImage container is loaded from HIP bytes or from a decoded PNG and *)
(* saved back to HIP bytes or to a PNG.  Byte strings are sequences of     *)
(* integers 0..255; a Python exception is the name of its class, and the   *)
(* empty string means that the call returned normally.                     *)
(***************************************************************************)
EXTENDS Integers, Sequences, FiniteSets, TLC

VARIABLES image_size, image, palette, alpha, hip_in, hip_out, png_out, result, src, loaded

vars == <<image_size, image, palette, alpha, hip_in, hip_out, png_out, result, src, loaded>>

container == <<image_size, image, palette, alpha>>

(***************************************************************************)
(* Module constants of hip.py.                                             *)
(***************************************************************************)
HIP_PREFIX == <<72, 73, 80, 0>>

PALETTE_IMAGE_TYPE == "P"

RAW_IMAGE_TYPE == "RGBA"

RAW_A_SIZE == 1

RAW_RGB_SIZE == 3

BITS_PER_COLOR_CHANNEL == 8

HIP_MAX_COLORS == 256

MAX_BYTE_VALUE == 255

HIP_PAL_IMG_CHUNK_SIZE == 2

HIP_RAW_IMG_CHUNK_SIZE == 5

HIP_FILE_SIZE_INDEX == 1

HIP_NUM_COLORS_INDEX == 2

HIP_PAL_IMG_WIDTH_INDEX == 0

HIP_PAL_IMG_HEIGHT_INDEX == 1

HIP_RAW_IMG_WIDTH_INDEX == 3

HIP_RAW_IMG_HEIGHT_INDEX == 4

INT_SIZE == 4

HEADER_SIZE == INT_SIZE * 7

PALETTE_HEADER_SIZE == INT_SIZE * 8

\* unknown_00 of _build_header
UNKNOWN_00 == 293

\* unknown_05 of _build_header for a raw image
UNKNOWN_05_RAW == 272

(***************************************************************************)
(* Python's sequence operations.                                           *)
(***************************************************************************)
Min(a, b) == IF a < b THEN a ELSE b

\* s[a:b], with 0 <= a and 0 <= b: the slice is clamped to the sequence
Slice(s, a, b) == SubSeq(s, a + 1, Min(b, Len(s)))

\* s[::-1]
Reverse(s) == [k \in 1..Len(s) |-> s[Len(s) + 1 - k]]

\* t * n for a tuple or a bytes object t
Repeat(t, n) == [k \in 1..(n * Len(t)) |-> t[((k - 1) % Len(t)) + 1]]

\* s.startswith(p)
StartsWith(s, p) == Len(s) >= Len(p) /\ SubSeq(s, 1, Len(p)) = p

\* The iterations lo..hi of a `while True:` or `for` loop whose body is Step;
\* a body that breaks or raises sets st.done, which ends the loop.  The range is
\* halved instead of walked so that the evaluation stays shallow.
RECURSIVE Loop(_, _, _, _)
Loop(Step(_, _), st, lo, hi) ==
    IF lo > hi THEN st
    ELSE IF lo = hi THEN Step(st, lo)
    ELSE LET mid == (lo + hi) \div 2
             s1 == Loop(Step, st, lo, mid)
         IN  IF s1.done THEN s1 ELSE Loop(Step, s1, mid + 1, hi)

\* struct.pack("<I", n) for 0 <= n < 2^31
pack_u32(n) == <<n % 256, (n \div 256) % 256, (n \div 65536) % 256, (n \div 16777216) % 256>>

\* struct.unpack("<I", b) for a value below 2^31
unpack_u32(b) == b[1] + 256 * b[2] + 65536 * b[3] + 16777216 * b[4]

\* struct.pack("<I...I", *fields)
RECURSIVE pack(_)
pack(fields) ==
    IF fields = <<>> THEN <<>> ELSE pack_u32(Head(fields)) \o pack(Tail(fields))

\* _unpack_from("<I...I" with n fields, data); struct.unpack_from raises
\* struct.error on a buffer shorter than the format
_unpack_from(n, data) ==
    IF Len(data) < n * INT_SIZE
    THEN [err |-> "struct.error", unpacked |-> <<>>, remaining |-> <<>>]
    ELSE [err |-> "",
          unpacked |-> [k \in 1..n |-> unpack_u32(Slice(data, INT_SIZE * (k - 1), INT_SIZE * k))],
          remaining |-> Slice(data, n * INT_SIZE, Len(data))]

(***************************************************************************)
(* Decoding.                                                               *)
(***************************************************************************)
HeaderError(e, sub) ==
    [err |-> e, num_colors |-> 0, width |-> 0, height |-> 0, remaining |-> <<>>,
     read_palette_header |-> sub]

\* _parse_header(hip_contents); read_palette_header records whether the
\* palette sub-header was unpacked
_parse_header(hip_contents) ==
    IF ~StartsWith(hip_contents, HIP_PREFIX) THEN HeaderError("ValueError", FALSE)
    ELSE LET u == _unpack_from(7, Slice(hip_contents, Len(HIP_PREFIX), Len(hip_contents)))
             header == u.unpacked
         IN  IF u.err # "" THEN HeaderError(u.err, FALSE)
             ELSE IF header[HIP_FILE_SIZE_INDEX + 1] # Len(hip_contents)
             THEN HeaderError("ValueError", FALSE)
             ELSE LET num_colors == header[HIP_NUM_COLORS_INDEX + 1]
                  IN  IF num_colors # 0
                      THEN IF num_colors < HIP_MAX_COLORS THEN HeaderError("ValueError", FALSE)
                           ELSE LET p == _unpack_from(8, u.remaining)
                                IN  IF p.err # "" THEN HeaderError(p.err, TRUE)
                                    ELSE [err |-> "", num_colors |-> num_colors,
                                          width |-> p.unpacked[HIP_PAL_IMG_WIDTH_INDEX + 1],
                                          height |-> p.unpacked[HIP_PAL_IMG_HEIGHT_INDEX + 1],
                                          remaining |-> p.remaining,
                                          read_palette_header |-> TRUE]
                      ELSE [err |-> "", num_colors |-> num_colors,
                            width |-> header[HIP_RAW_IMG_WIDTH_INDEX + 1],
                            height |-> header[HIP_RAW_IMG_HEIGHT_INDEX + 1],
                            remaining |-> u.remaining,
                            read_palette_header |-> FALSE]

\* One iteration of the loop of _parse_palette over the sliced palette
_parse_palette_step(st, palette_index) ==
    LET palette_offset == palette_index * (RAW_RGB_SIZE + RAW_A_SIZE)
        bgr == Slice(st.palette, palette_offset, palette_offset + RAW_RGB_SIZE)
        a == Slice(st.palette, palette_offset + RAW_RGB_SIZE,
                   palette_offset + RAW_RGB_SIZE + RAW_A_SIZE)
    IN  IF bgr = <<>> /\ a = <<>> THEN [st EXCEPT !.done = TRUE]
        ELSE IF (bgr # <<>>) # (a # <<>>)
        THEN [st EXCEPT !.done = TRUE, !.err = "ValueError"]
        ELSE [st EXCEPT !.palette_data = @ \o bgr, !.alpha_data = @ \o a]

\* One iteration of a _parse_palette loop that lacks the de-sync check
_parse_palette_step_unchecked(st, palette_index) ==
    LET palette_offset == palette_index * (RAW_RGB_SIZE + RAW_A_SIZE)
        bgr == Slice(st.palette, palette_offset, palette_offset + RAW_RGB_SIZE)
        a == Slice(st.palette, palette_offset + RAW_RGB_SIZE,
                   palette_offset + RAW_RGB_SIZE + RAW_A_SIZE)
    IN  IF bgr = <<>> /\ a = <<>> THEN [st EXCEPT !.done = TRUE]
        ELSE [st EXCEPT !.palette_data = @ \o bgr, !.alpha_data = @ \o a]

\* A faulty variant of _parse_palette that lacks both de-sync checks
_parse_palette_unchecked(num_colors, hip_contents) ==
    LET palette_size == num_colors * (RAW_RGB_SIZE + RAW_A_SIZE)
        pal == Slice(hip_contents, 0, palette_size)
        st == Loop(_parse_palette_step_unchecked,
                   [done |-> FALSE, err |-> "", palette |-> pal,
                    palette_data |-> <<>>, alpha_data |-> <<>>],
                   0, Len(pal) \div (RAW_RGB_SIZE + RAW_A_SIZE))
    IN  [err |-> "", palette |-> Reverse(st.palette_data), alpha |-> Reverse(st.alpha_data),
         remaining |-> Slice(hip_contents, palette_size, Len(hip_contents))]

\* A faulty variant of _parse_palette that returns the tables in disk order
_parse_palette_not_transposed(num_colors, hip_contents) ==
    LET palette_size == num_colors * (RAW_RGB_SIZE + RAW_A_SIZE)
        pal == Slice(hip_contents, 0, palette_size)
        st == Loop(_parse_palette_step,
                   [done |-> FALSE, err |-> "", palette |-> pal,
                    palette_data |-> <<>>, alpha_data |-> <<>>],
                   0, Len(pal) \div (RAW_RGB_SIZE + RAW_A_SIZE))
    IN  [err |-> st.err, palette |-> st.palette_data, alpha |-> st.alpha_data,
         remaining |-> Slice(hip_contents, palette_size, Len(hip_contents))]

\* _parse_palette(num_colors, hip_contents)
_parse_palette(num_colors, hip_contents) ==
    LET palette_size == num_colors * (RAW_RGB_SIZE + RAW_A_SIZE)
        pal == Slice(hip_contents, 0, palette_size)
        st == Loop(_parse_palette_step,
                   [done |-> FALSE, err |-> "", palette |-> pal,
                    palette_data |-> <<>>, alpha_data |-> <<>>],
                   0, Len(pal) \div (RAW_RGB_SIZE + RAW_A_SIZE))
    IN  IF st.err # ""
        THEN [err |-> st.err, palette |-> <<>>, alpha |-> <<>>, remaining |-> <<>>]
        ELSE IF Len(st.palette_data) * RAW_A_SIZE # Len(st.alpha_data) * RAW_RGB_SIZE
        THEN [err |-> "ValueError", palette |-> <<>>, alpha |-> <<>>, remaining |-> <<>>]
        ELSE [err |-> "", palette |-> Reverse(st.palette_data),
              alpha |-> Reverse(st.alpha_data),
              remaining |-> Slice(hip_contents, palette_size, Len(hip_contents))]

\* One iteration of the loop of _parse_palette_image_data; bytearray() of a value
\* above 255 raises ValueError
_parse_palette_image_data_step(st, chunk_index) ==
    LET chunk_offset == chunk_index * HIP_PAL_IMG_CHUNK_SIZE
        color_data == Slice(st.hip_contents, chunk_offset, chunk_offset + HIP_PAL_IMG_CHUNK_SIZE)
    IN  IF color_data = <<>> THEN [st EXCEPT !.done = TRUE]
        ELSE IF Len(color_data) # HIP_PAL_IMG_CHUNK_SIZE
        THEN [st EXCEPT !.done = TRUE, !.err = "AssertionError"]
        ELSE LET palette_index == st.num_colors - color_data[1] - 1
                 num_pixels == color_data[2]
             IN  IF num_pixels > 0 /\ (palette_index < 0 \/ palette_index > MAX_BYTE_VALUE)
                 THEN [st EXCEPT !.done = TRUE, !.err = "ValueError"]
                 ELSE [st EXCEPT !.data = @ \o Repeat(<<palette_index>>, num_pixels)]

\* _parse_palette_image_data(width, height, num_colors, hip_contents)
_parse_palette_image_data(width, height, num_colors, hip_contents) ==
    LET total_pixels == width * height
        st == Loop(_parse_palette_image_data_step,
                   [done |-> FALSE, err |-> "", hip_contents |-> hip_contents,
                    num_colors |-> num_colors, data |-> <<>>],
                   0, Len(hip_contents) \div HIP_PAL_IMG_CHUNK_SIZE)
    IN  IF st.err # "" THEN [err |-> st.err, data |-> <<>>]
        ELSE IF Len(st.data) # total_pixels THEN [err |-> "ValueError", data |-> <<>>]
        ELSE [err |-> "", data |-> st.data]

\* A faulty variant of the loop body of _parse_raw_image_data that keeps the stored
\* B,G,R order
_parse_raw_image_data_step_no_swap(st, chunk_index) ==
    LET chunk_offset == chunk_index * HIP_RAW_IMG_CHUNK_SIZE
        color_data == Slice(st.hip_contents, chunk_offset, chunk_offset + HIP_RAW_IMG_CHUNK_SIZE)
    IN  IF color_data = <<>> THEN [st EXCEPT !.done = TRUE]
        ELSE IF Len(color_data) # HIP_RAW_IMG_CHUNK_SIZE
        THEN [st EXCEPT !.done = TRUE, !.err = "AssertionError"]
        ELSE [st EXCEPT !.image = @ \o Repeat(Slice(color_data, 0, RAW_RGB_SIZE + RAW_A_SIZE),
                                              color_data[HIP_RAW_IMG_CHUNK_SIZE])]

\* One iteration of the loop of _parse_raw_image_data
_parse_raw_image_data_step(st, chunk_index) ==
    LET chunk_offset == chunk_index * HIP_RAW_IMG_CHUNK_SIZE
        color_data == Slice(st.hip_contents, chunk_offset, chunk_offset + HIP_RAW_IMG_CHUNK_SIZE)
    IN  IF color_data = <<>> THEN [st EXCEPT !.done = TRUE]
        ELSE IF Len(color_data) # HIP_RAW_IMG_CHUNK_SIZE
        THEN [st EXCEPT !.done = TRUE, !.err = "AssertionError"]
        ELSE LET bgr == Slice(color_data, 0, RAW_RGB_SIZE)
                 a == Slice(color_data, RAW_RGB_SIZE, RAW_RGB_SIZE + RAW_A_SIZE)
                 num_pixels == color_data[HIP_RAW_IMG_CHUNK_SIZE]
                 rgba == Reverse(bgr) \o a
             IN  [st EXCEPT !.image = @ \o Repeat(rgba, num_pixels)]

\* _parse_raw_image_data(width, height, hip_contents)
_parse_raw_image_data(width, height, hip_contents) ==
    LET total_pixels == width * height
        st == Loop(_parse_raw_image_data_step,
                   [done |-> FALSE, err |-> "", hip_contents |-> hip_contents,
                    image |-> <<>>],
                   0, Len(hip_contents) \div HIP_RAW_IMG_CHUNK_SIZE)
    IN  IF st.err # "" THEN [err |-> st.err, data |-> <<>>]
        ELSE IF Len(st.image) \div (RAW_RGB_SIZE + RAW_A_SIZE) # total_pixels
        THEN [err |-> "ValueError", data |-> <<>>]
        ELSE [err |-> "", data |-> st.image]

LoadError(e, sub, pal, dec) ==
    [err |-> e, image_size |-> <<0, 0>>, image |-> <<>>, palette |-> <<>>, alpha |-> <<>>,
     read_palette_header |-> sub, parsed_palette |-> pal, decoded |-> dec]

\* _load_hip(hip_image) on an io.BytesIO holding hip_contents; parsed_palette and
\* decoded record whether _parse_palette and a pixel decoder were called
_load_hip(hip_contents) ==
    LET h == _parse_header(hip_contents)
    IN  IF h.err # "" THEN LoadError(h.err, h.read_palette_header, FALSE, FALSE)
        ELSE IF h.num_colors > 0
        THEN LET p == _parse_palette(h.num_colors, h.remaining)
             IN  IF p.err # "" THEN LoadError(p.err, TRUE, TRUE, FALSE)
                 ELSE LET d == _parse_palette_image_data(h.width, h.height, h.num_colors,
                                                         p.remaining)
                      IN  IF d.err # "" THEN LoadError(d.err, TRUE, TRUE, TRUE)
                          ELSE [err |-> "", image_size |-> <<h.width, h.height>>,
                                image |-> d.data, palette |-> p.palette, alpha |-> p.alpha,
                                read_palette_header |-> TRUE, parsed_palette |-> TRUE,
                                decoded |-> TRUE]
        ELSE LET d == _parse_raw_image_data(h.width, h.height, h.remaining)
             IN  IF d.err # "" THEN LoadError(d.err, FALSE, FALSE, TRUE)
                 ELSE [err |-> "", image_size |-> <<h.width, h.height>>,
                       image |-> d.data, palette |-> <<>>, alpha |-> <<>>,
                       read_palette_header |-> FALSE, parsed_palette |-> FALSE,
                       decoded |-> TRUE]

(***************************************************************************)
(* Encoding.                                                               *)
(***************************************************************************)
\* A faulty variant of _build_header that leaves the palette sub-header out of file_size
_build_header_no_sub_size(image_dimensions, image_type, image_data_size, palette_data_size) ==
    LET file_size == Len(HIP_PREFIX) + HEADER_SIZE + palette_data_size + image_data_size
    IN  IF image_type = PALETTE_IMAGE_TYPE
        THEN HIP_PREFIX
             \o pack(<<UNKNOWN_00, file_size, HIP_MAX_COLORS, 0, 0, 0,
                       HIP_MAX_COLORS \div BITS_PER_COLOR_CHANNEL>>)
             \o pack(<<image_dimensions[1], image_dimensions[2], 0, 0, 0, 0, 0, 0>>)
        ELSE HIP_PREFIX
             \o pack(<<UNKNOWN_00, file_size, 0, image_dimensions[1], image_dimensions[2],
                       UNKNOWN_05_RAW, 0>>)

\* _build_header(image_dimensions, image_type, image_data_size, palette_data_size=0)
_build_header(image_dimensions, image_type, image_data_size, palette_data_size) ==
    LET palette_header_size == IF image_type = PALETTE_IMAGE_TYPE THEN PALETTE_HEADER_SIZE ELSE 0
        file_size == Len(HIP_PREFIX) + HEADER_SIZE + palette_header_size
                     + palette_data_size + image_data_size
        unknown_00 == UNKNOWN_00
        unknown_05 == IF image_type = PALETTE_IMAGE_TYPE THEN 0 ELSE UNKNOWN_05_RAW
        num_colors == IF image_type = PALETTE_IMAGE_TYPE THEN HIP_MAX_COLORS ELSE 0
        width1 == IF image_type = PALETTE_IMAGE_TYPE THEN 0 ELSE image_dimensions[1]
        height1 == IF image_type = PALETTE_IMAGE_TYPE THEN 0 ELSE image_dimensions[2]
        color_depth == num_colors \div BITS_PER_COLOR_CHANNEL
        header == HIP_PREFIX \o pack(<<unknown_00, file_size, num_colors, width1, height1,
                                       unknown_05, color_depth>>)
    IN  IF image_type = PALETTE_IMAGE_TYPE
        THEN header \o pack(<<image_dimensions[1], image_dimensions[2], 0, 0, 0, 0, 0, 0>>)
        ELSE header

\* One iteration of the loop of _build_palette over the reversed tables
_build_palette_step(st, pixel_index) ==
    LET bgr_offset == pixel_index * RAW_RGB_SIZE
        a_offset == pixel_index * RAW_A_SIZE
        bgr == Slice(st.palette_data, bgr_offset, bgr_offset + RAW_RGB_SIZE)
        a == Slice(st.alpha, a_offset, a_offset + RAW_A_SIZE)
    IN  IF bgr = <<>> /\ a = <<>> THEN [st EXCEPT !.done = TRUE]
        ELSE IF (bgr # <<>>) # (a # <<>>)
        THEN [st EXCEPT !.done = TRUE, !.err = "ValueError"]
        ELSE [st EXCEPT !.hip_palette_data = @ \o bgr \o a]

\* A faulty variant of _build_palette that does not reverse the alpha table
_build_palette_alpha_not_reversed(palette_data, alpha_data) ==
    LET st == Loop(_build_palette_step,
                   [done |-> FALSE, err |-> "", palette_data |-> Reverse(palette_data),
                    alpha |-> alpha_data, hip_palette_data |-> <<>>],
                   0, Len(palette_data) + Len(alpha_data))
    IN  IF Len(palette_data) * RAW_A_SIZE # Len(alpha_data) * RAW_RGB_SIZE
        THEN [err |-> "ValueError", data |-> <<>>]
        ELSE IF st.err # "" THEN [err |-> st.err, data |-> <<>>]
        ELSE IF Len(st.hip_palette_data) # HIP_MAX_COLORS * (RAW_RGB_SIZE + RAW_A_SIZE)
        THEN [err |-> "ValueError", data |-> <<>>]
        ELSE [err |-> "", data |-> st.hip_palette_data]

\* _build_palette(palette_data, alpha)
_build_palette(palette_data, alpha_data) ==
    LET st == Loop(_build_palette_step,
                   [done |-> FALSE, err |-> "", palette_data |-> Reverse(palette_data),
                    alpha |-> Reverse(alpha_data), hip_palette_data |-> <<>>],
                   0, Len(palette_data) + Len(alpha_data))
    IN  IF Len(palette_data) * RAW_A_SIZE # Len(alpha_data) * RAW_RGB_SIZE
        THEN [err |-> "ValueError", data |-> <<>>]
        ELSE IF st.err # "" THEN [err |-> st.err, data |-> <<>>]
        ELSE IF Len(st.hip_palette_data) # HIP_MAX_COLORS * (RAW_RGB_SIZE + RAW_A_SIZE)
        THEN [err |-> "ValueError", data |-> <<>>]
        ELSE [err |-> "", data |-> st.hip_palette_data]

\* A faulty variant of _build_palette_image_step that cuts a run one pixel early
_build_palette_image_step_early_flush(st, k) ==
    LET palette_index == st.image_data[k]
        last_index == HIP_MAX_COLORS - 1
        flush == (palette_index # st.current_index /\ st.count > 0)
                 \/ st.count >= MAX_BYTE_VALUE - 1
    IN  [st EXCEPT
            !.hip_image_data = IF flush THEN @ \o <<last_index - st.current_index, st.count>>
                               ELSE @,
            !.count = (IF flush THEN 0 ELSE @) + 1,
            !.current_index = palette_index]

\* One iteration of the for loop of _build_palette_image, on image_data[k - 1]
_build_palette_image_step(st, k) ==
    LET palette_index == st.image_data[k]
        last_index == HIP_MAX_COLORS - 1
        flush == (palette_index # st.current_index /\ st.count > 0)
                 \/ st.count >= MAX_BYTE_VALUE
    IN  [st EXCEPT
            !.hip_image_data = IF flush THEN @ \o <<last_index - st.current_index, st.count>>
                               ELSE @,
            !.count = (IF flush THEN 0 ELSE @) + 1,
            !.current_index = palette_index]

\* _build_palette_image(image_data)
_build_palette_image(image_data) ==
    LET last_index == HIP_MAX_COLORS - 1
        st == Loop(_build_palette_image_step,
                   [done |-> FALSE, image_data |-> image_data, count |-> 0,
                    current_index |-> -1, hip_image_data |-> <<>>],
                   1, Len(image_data))
    IN  IF st.count # 0
        THEN st.hip_image_data \o <<last_index - st.current_index, st.count>>
        ELSE st.hip_image_data

\* One iteration of the loop of _build_raw_image
_build_raw_image_step(st, pixel_index) ==
    LET pixel_offset == pixel_index * (RAW_RGB_SIZE + RAW_A_SIZE)
        color_data == Slice(st.image_data, pixel_offset,
                            pixel_offset + RAW_RGB_SIZE + RAW_A_SIZE)
        bgr == Reverse(Slice(color_data, 0, RAW_RGB_SIZE))
        a == Slice(color_data, RAW_RGB_SIZE, RAW_RGB_SIZE + RAW_A_SIZE)
        color == bgr \o a
        flush == (color # st.current_color /\ st.count > 0) \/ st.count >= MAX_BYTE_VALUE
    IN  IF bgr = <<>> /\ a = <<>> THEN [st EXCEPT !.done = TRUE]
        ELSE IF (bgr # <<>>) # (a # <<>>)
        THEN [st EXCEPT !.done = TRUE, !.err = "ValueError"]
        ELSE [st EXCEPT
                !.hip_image_data = IF flush THEN @ \o st.current_color \o <<st.count>> ELSE @,
                !.count = (IF flush THEN 0 ELSE @) + 1,
                !.current_color = color]

\* _build_raw_image(image_data)
_build_raw_image(image_data) ==
    LET st == Loop(_build_raw_image_step,
                   [done |-> FALSE, err |-> "", image_data |-> image_data, count |-> 0,
                    current_color |-> <<>>, hip_image_data |-> <<>>],
                   0, Len(image_data))
    IN  IF st.err # "" THEN [err |-> st.err, data |-> <<>>]
        ELSE IF st.count # 0
        THEN [err |-> "", data |-> st.hip_image_data \o st.current_color \o <<st.count>>]
        ELSE [err |-> "", data |-> st.hip_image_data]

\* A faulty variant of _save_hip that picks the mode by the palette alone
_save_hip_by_palette(size, img, pal, alp) ==
    IF pal # <<>>
    THEN LET hip_palette_data == _build_palette(pal, alp)
             hip_image_data == _build_palette_image(img)
             header == _build_header(size, PALETTE_IMAGE_TYPE, Len(hip_image_data),
                                     Len(hip_palette_data.data))
         IN  IF hip_palette_data.err # ""
             THEN [err |-> hip_palette_data.err, written |-> <<>>]
             ELSE [err |-> "", written |-> header \o hip_palette_data.data \o hip_image_data]
    ELSE LET hip_image_data == _build_raw_image(img)
             header == _build_header(size, RAW_IMAGE_TYPE, Len(hip_image_data.data), 0)
         IN  IF hip_image_data.err # ""
             THEN [err |-> hip_image_data.err, written |-> <<>>]
             ELSE [err |-> "", written |-> header \o hip_image_data.data]

\* A faulty variant of _save_hip that writes the header of an indexed file before
\* it builds the palette
_save_hip_header_first(size, img, pal, alp) ==
    IF pal # <<>> /\ alp # <<>>
    THEN LET hip_image_data == _build_palette_image(img)
             header == _build_header(size, PALETTE_IMAGE_TYPE, Len(hip_image_data),
                                     HIP_MAX_COLORS * (RAW_RGB_SIZE + RAW_A_SIZE))
             hip_palette_data == _build_palette(pal, alp)
         IN  IF hip_palette_data.err # ""
             THEN [err |-> hip_palette_data.err, written |-> header]
             ELSE [err |-> "", written |-> header \o hip_palette_data.data \o hip_image_data]
    ELSE IF pal = <<>> /\ alp = <<>>
    THEN LET hip_image_data == _build_raw_image(img)
             header == _build_header(size, RAW_IMAGE_TYPE, Len(hip_image_data.data), 0)
         IN  IF hip_image_data.err # ""
             THEN [err |-> hip_image_data.err, written |-> <<>>]
             ELSE [err |-> "", written |-> header \o hip_image_data.data]
    ELSE [err |-> "TypeError", written |-> <<>>]

\* _save_hip(image_size, image, palette, alpha, out) with out an io.BytesIO;
\* written is what the call wrote to out
_save_hip(size, img, pal, alp) ==
    IF pal # <<>> /\ alp # <<>>
    THEN LET hip_palette_data == _build_palette(pal, alp)
             hip_image_data == _build_palette_image(img)
             header == _build_header(size, PALETTE_IMAGE_TYPE, Len(hip_image_data),
                                     Len(hip_palette_data.data))
         IN  IF hip_palette_data.err # ""
             THEN [err |-> hip_palette_data.err, written |-> <<>>]
             ELSE [err |-> "", written |-> header \o hip_palette_data.data \o hip_image_data]
    ELSE IF pal = <<>> /\ alp = <<>>
    THEN LET hip_image_data == _build_raw_image(img)
             header == _build_header(size, RAW_IMAGE_TYPE, Len(hip_image_data.data), 0)
         IN  IF hip_image_data.err # ""
             THEN [err |-> hip_image_data.err, written |-> <<>>]
             ELSE [err |-> "", written |-> header \o hip_image_data.data]
    ELSE [err |-> "TypeError", written |-> <<>>]

\* A faulty variant of save_hip without the check for an empty pixel buffer
save_hip_no_check(size, img, pal, alp) == _save_hip(size, img, pal, alp)

\* HIPImage.save_hip(hip_output)
save_hip(size, img, pal, alp) ==
    IF img = <<>> THEN [err |-> "ValueError", written |-> <<>>]
    ELSE _save_hip(size, img, pal, alp)

\* HIPImage.is_palette_image()
is_palette_image == palette # <<>> /\ alpha # <<>>

(***************************************************************************)
(* PNG side.  Pillow is an external library: a PNG is the record of what   *)
(* Image.open presents (mode, size, getdata(), getpalette(), the           *)
(* "transparency" entry of info) or of what is handed to Image.save.       *)
(***************************************************************************)
\* bytearray(image_fp.info["transparency"]): the entry is a bytes object, an int
\* (bytearray(n) is n zero bytes) or missing (KeyError)
_transparency(info) ==
    IF info.kind = "absent" THEN [err |-> "KeyError", data |-> <<>>]
    ELSE IF info.kind = "int" THEN [err |-> "", data |-> Repeat(<<0>>, info.int)]
    ELSE [err |-> "", data |-> info.bytes]

\* One iteration of the for loop of _load_raw_png, on image_raw[k - 1]
_load_raw_png_step(st, k) == [st EXCEPT !.image = @ \o st.image_raw[k]]

\* _load_raw_png(image_fp)
_load_raw_png(image_fp) ==
    Loop(_load_raw_png_step, [done |-> FALSE, image_raw |-> image_fp.rgba_data, image |-> <<>>],
         1, Len(image_fp.rgba_data)).image

PngLoadError(e) ==
    [err |-> e, image_size |-> <<0, 0>>, image |-> <<>>, palette |-> <<>>, alpha |-> <<>>]

\* _load_png(png_image), with _load_palette_png inlined
_load_png(image_fp) ==
    IF image_fp.mode = PALETTE_IMAGE_TYPE
    THEN LET t == _transparency(image_fp.transparency)
         IN  IF t.err # "" THEN PngLoadError(t.err)
             ELSE [err |-> "", image_size |-> image_fp.size, image |-> image_fp.index_data,
                   palette |-> image_fp.palette, alpha |-> t.data]
    ELSE IF image_fp.mode = RAW_IMAGE_TYPE
    THEN [err |-> "", image_size |-> image_fp.size, image |-> _load_raw_png(image_fp),
          palette |-> <<>>, alpha |-> <<>>]
    ELSE PngLoadError("TypeError")

\* One iteration of the loop of _save_raw_png
_save_raw_png_step(st, pixel_index) ==
    LET pixel_offset == pixel_index * (RAW_RGB_SIZE + RAW_A_SIZE)
        rgba == Slice(st.image_data, pixel_offset, pixel_offset + RAW_RGB_SIZE + RAW_A_SIZE)
    IN  IF rgba = <<>> THEN [st EXCEPT !.done = TRUE]
        ELSE IF Len(rgba) # RAW_RGB_SIZE + RAW_A_SIZE
        THEN [st EXCEPT !.done = TRUE, !.err = "AssertionError"]
        ELSE [st EXCEPT !.image = Append(@, rgba)]

\* _save_png(image_size, image, palette, alpha, out), with _save_palette_png and
\* _save_raw_png inlined; written is the image handed to Pillow's save, if any
_save_png(size, img, pal, alp) ==
    IF pal # <<>> /\ alp # <<>>
    THEN [err |-> "",
          written |-> <<[mode |-> PALETTE_IMAGE_TYPE, size |-> size, index_data |-> img,
                         rgba_data |-> <<>>, palette |-> pal,
                         transparency |-> [kind |-> "bytes", bytes |-> alp, int |-> 0]]>>]
    ELSE IF pal = <<>> /\ alp = <<>>
    THEN LET st == Loop(_save_raw_png_step,
                        [done |-> FALSE, err |-> "", image_data |-> img, image |-> <<>>],
                        0, Len(img))
         IN  IF st.err # "" THEN [err |-> st.err, written |-> <<>>]
             ELSE [err |-> "",
                   written |-> <<[mode |-> RAW_IMAGE_TYPE, size |-> size, index_data |-> <<>>,
                                  rgba_data |-> st.image, palette |-> <<>>,
                                  transparency |-> [kind |-> "absent", bytes |-> <<>>,
                                                    int |-> 0]]>>]
    ELSE [err |-> "TypeError", written |-> <<>>]

\* A faulty variant of save_png without the check for an empty pixel buffer
save_png_no_check(size, img, pal, alp) == _save_png(size, img, pal, alp)

\* HIPImage.save_png(png_output)
save_png(size, img, pal, alp) ==
    IF img = <<>> THEN [err |-> "ValueError", written |-> <<>>]
    ELSE _save_png(size, img, pal, alp)

(***************************************************************************)
(* Inputs: HIP byte strings and decoded PNG images.                        *)
(***************************************************************************)
\* The number of distinct palette blobs among the inputs
NumPalettes == 2

\* Runs of MAX_BYTE_VALUE .. MAX_BYTE_VALUE + MaxOver identical pixels occur
MaxOver == 2

\* Palettes cut to 0 .. MaxTruncated bytes occur
MaxTruncated == 8

\* A 1024-byte on-disk palette: entry i (0-based) is B,G,R,A
PaletteBlob(s) ==
    [k \in 1..(HIP_MAX_COLORS * 4) |->
        (5 * ((k - 1) \div 4) + 67 * ((k - 1) % 4) + 29 * s + 1) % 256]

\* A logical palette (R,G,B per entry) and alpha table, as Pillow presents them
LogicalPalette(s) == [k \in 1..(HIP_MAX_COLORS * 3) |-> (3 * k + 17 * s) % 256]

LogicalAlpha(s) == [k \in 1..HIP_MAX_COLORS |-> (11 * k + 5 * s) % 256]

\* A direct-color file: signature, base header, chunks; delta is added to fileSize
DirectFile(unknownA, delta, w, h, unknownB, depth, chunks) ==
    HIP_PREFIX
    \o pack(<<unknownA, Len(HIP_PREFIX) + HEADER_SIZE + Len(chunks) + delta, 0, w, h,
              unknownB, depth>>)
    \o chunks

\* An indexed file: signature, base header, sub-header, palette, chunks
IndexedFile(unknownA, delta, nc, w1, h1, unknownB, depth, w, h, reserved, pal, chunks) ==
    HIP_PREFIX
    \o pack(<<unknownA,
              Len(HIP_PREFIX) + HEADER_SIZE + PALETTE_HEADER_SIZE + Len(pal) + Len(chunks) + delta,
              nc, w1, h1, unknownB, depth>>)
    \o pack(<<w, h, reserved, 0, 0, 0, 0, 0>>)
    \o pal \o chunks

GoodDirect(w, h, chunks) == DirectFile(UNKNOWN_00, 0, w, h, UNKNOWN_05_RAW, 0, chunks)

GoodIndexed(s, w, h, chunks) ==
    IndexedFile(UNKNOWN_00, 0, HIP_MAX_COLORS, 0, 0, 0, HIP_MAX_COLORS \div BITS_PER_COLOR_CHANNEL,
                w, h, 0, PaletteBlob(s), chunks)

\* Two stored colours (B,G,R,A)
ColorA == <<10, 20, 30, 40>>

ColorB == <<50, 60, 70, 80>>

\* The chunks of one run of n >= 1 pixels of key, cut at MAX_BYTE_VALUE
RunChunks(key, n) ==
    IF n <= MAX_BYTE_VALUE THEN key \o <<n>>
    ELSE key \o <<MAX_BYTE_VALUE>> \o key \o <<n - MAX_BYTE_VALUE>>

DirectInputs ==
    {GoodDirect(1, 1, ColorA \o <<1>>),
     GoodDirect(2, 2, ColorA \o <<2>> \o ColorB \o <<2>>),
     GoodDirect(2, 2, ColorA \o <<2>> \o ColorA \o <<2>>),
     GoodDirect(2, 1, ColorA \o <<2>> \o ColorB \o <<0>>),
     GoodDirect(256, 1, ColorA \o <<128>> \o ColorA \o <<128>>),
     GoodDirect(2, 2, ColorA \o <<3>>),
     GoodDirect(1, 1, ColorA \o <<2>>),
     GoodDirect(1, 1, ColorA \o <<1>> \o <<1, 2>>),
     GoodDirect(2, 1, ColorA \o <<1>> \o <<1, 2, 3>>),
     GoodDirect(1, 1, <<7>>),
     GoodDirect(0, 0, <<>>),
     GoodDirect(0, 5, <<>>),
     DirectFile(UNKNOWN_00 - 1, 0, 1, 1, UNKNOWN_05_RAW, 0, ColorA \o <<1>>),
     DirectFile(UNKNOWN_00, 0, 1, 1, 0, 0, ColorA \o <<1>>),
     DirectFile(UNKNOWN_00, 0, 1, 1, UNKNOWN_05_RAW, 32, ColorA \o <<1>>),
     DirectFile(UNKNOWN_00, 1, 1, 1, UNKNOWN_05_RAW, 0, ColorA \o <<1>>),
     DirectFile(UNKNOWN_00, -1, 1, 1, UNKNOWN_05_RAW, 0, ColorA \o <<1>>),
     DirectFile(UNKNOWN_00, 1, 2, 2, UNKNOWN_05_RAW, 0, ColorA \o <<3>>),
     <<72, 73, 80, 1>> \o SubSeq(GoodDirect(1, 1, ColorA \o <<1>>), 5, 37),
     SubSeq(GoodDirect(1, 1, ColorA \o <<1>>), 1, 12),
     SubSeq(GoodDirect(1, 1, ColorA \o <<1>>), 1, 20),
     HIP_PREFIX \o pack(<<UNKNOWN_00, 12>>),
     SubSeq(HIP_PREFIX, 1, 3)}
    \cup {GoodDirect(MAX_BYTE_VALUE + d, 1, RunChunks(ColorB, MAX_BYTE_VALUE + d)) : d \in 0..MaxOver}

TruncatedIndexed(w, h, n) ==
    IndexedFile(UNKNOWN_00, 0, HIP_MAX_COLORS, 0, 0, 0, HIP_MAX_COLORS \div BITS_PER_COLOR_CHANNEL,
                w, h, 0, SubSeq(PaletteBlob(0), 1, n), <<>>)

IndexedInputs ==
    {GoodIndexed(0, 2, 2, <<255, 2, 254, 2>>),
     GoodIndexed(0, 2, 1, <<255, 1, 255, 1>>),
     GoodIndexed(0, 1, 1, <<3, 1, 9, 0>>),
     GoodIndexed(0, 2, 2, <<3, 3>>),
     GoodIndexed(0, 1, 1, <<3, 2>>),
     GoodIndexed(0, 1, 1, <<3, 1, 4>>),
     GoodIndexed(0, 1, 1, <<3>>),
     GoodIndexed(0, 0, 0, <<>>),
     IndexedFile(UNKNOWN_00 + 1, 0, 256, 0, 0, 0, 32, 1, 1, 0, PaletteBlob(0), <<8, 1>>),
     IndexedFile(UNKNOWN_00, 0, 256, 1, 1, 0, 32, 1, 1, 0, PaletteBlob(0), <<8, 1>>),
     IndexedFile(UNKNOWN_00, 0, 256, 0, 0, UNKNOWN_05_RAW, 32, 1, 1, 0, PaletteBlob(0), <<8, 1>>),
     IndexedFile(UNKNOWN_00, 0, 256, 0, 0, 0, 0, 1, 1, 0, PaletteBlob(0), <<8, 1>>),
     IndexedFile(UNKNOWN_00, 0, 256, 0, 0, 0, 32, 1, 1, 9, PaletteBlob(0), <<8, 1>>),
     IndexedFile(UNKNOWN_00, 1, 256, 0, 0, 0, 32, 1, 1, 0, PaletteBlob(0), <<8, 1>>),
     IndexedFile(UNKNOWN_00, -1, 256, 0, 0, 0, 32, 1, 1, 0, PaletteBlob(0), <<8, 1>>),
     IndexedFile(UNKNOWN_00, 0, 4, 0, 0, 0, 0, 1, 1, 0, SubSeq(PaletteBlob(0), 1, 16), <<3, 1>>),
     IndexedFile(UNKNOWN_00, 0, 255, 0, 0, 0, 31, 1, 1, 0, SubSeq(PaletteBlob(0), 1, 1020), <<3, 1>>),
     IndexedFile(UNKNOWN_00, 0, 257, 0, 0, 0, 32, 1, 1, 0, PaletteBlob(0) \o <<1, 2, 3, 4>>, <<1, 1>>),
     IndexedFile(UNKNOWN_00, 0, 257, 0, 0, 0, 32, 1, 1, 0, PaletteBlob(0) \o <<1, 2, 3, 4>>, <<0, 1>>),
     IndexedFile(UNKNOWN_00, 0, 257, 0, 0, 0, 32, 1, 1, 0, PaletteBlob(0), <<1, 1>>),
     IndexedFile(UNKNOWN_00, 0, 512, 0, 0, 0, 64, 1, 1, 0, PaletteBlob(0), <<1, 1>>),
     TruncatedIndexed(1, 1, 4),
     HIP_PREFIX \o pack(<<UNKNOWN_00, 32, 256, 0, 0, 0, 32>>),
     HIP_PREFIX \o pack(<<UNKNOWN_00, 32, 4, 0, 0, 0, 0>>),
     HIP_PREFIX \o pack(<<UNKNOWN_00, 40, 256, 0, 0, 0, 32, 1, 1>>)}
    \cup {GoodIndexed(s, 1, 1, <<255 - s, 1>>) : s \in 0..(NumPalettes - 1)}
    \cup {GoodIndexed(0, MAX_BYTE_VALUE + d, 1, RunChunks(<<7>>, MAX_BYTE_VALUE + d)) : d \in 0..MaxOver}
    \cup {TruncatedIndexed(0, 0, n) : n \in 0..MaxTruncated}

HipInputs == DirectInputs \cup IndexedInputs

NoTransparency == [kind |-> "absent", bytes |-> <<>>, int |-> 0]

PalettePng(w, h, data, pal, trns) ==
    [mode |-> PALETTE_IMAGE_TYPE, size |-> <<w, h>>, index_data |-> data, rgba_data |-> <<>>,
     palette |-> pal, transparency |-> trns]

RawPng(md, w, h, data) ==
    [mode |-> md, size |-> <<w, h>>, index_data |-> <<>>, rgba_data |-> data,
     palette |-> <<>>, transparency |-> NoTransparency]

BytesTransparency(b) == [kind |-> "bytes", bytes |-> b, int |-> 0]

PngInputs ==
    {PalettePng(2, 2, <<0, 0, 1, 1>>, LogicalPalette(0), BytesTransparency(LogicalAlpha(0))),
     PalettePng(2 * MAX_BYTE_VALUE + 1, 1, Repeat(<<9>>, 2 * MAX_BYTE_VALUE + 1),
                LogicalPalette(1), BytesTransparency(LogicalAlpha(1))),
     PalettePng(2, 1, <<0, 1>>, LogicalPalette(0), [kind |-> "int", bytes |-> <<>>, int |-> 0]),
     PalettePng(2, 1, <<0, 1>>, LogicalPalette(0), [kind |-> "int", bytes |-> <<>>, int |-> 3]),
     PalettePng(2, 1, <<0, 1>>, LogicalPalette(0), NoTransparency),
     PalettePng(2, 1, <<0, 1>>, SubSeq(LogicalPalette(0), 1, 6), BytesTransparency(<<255, 0>>)),
     PalettePng(0, 0, <<>>, LogicalPalette(0), BytesTransparency(LogicalAlpha(0))),
     RawPng(RAW_IMAGE_TYPE, 2, 1, <<<<1, 2, 3, 4>>, <<5, 6, 7, 8>>>>),
     RawPng(RAW_IMAGE_TYPE, 3, 1, <<<<1, 2, 3, 4>>, <<1, 2, 3, 4>>, <<1, 2, 3, 5>>>>),
     RawPng("L", 1, 1, <<>>)}
    \cup {PalettePng(MAX_BYTE_VALUE + d + 1, 1, Repeat(<<5>>, MAX_BYTE_VALUE + d) \o <<6>>,
                     LogicalPalette(0), BytesTransparency(LogicalAlpha(0))) : d \in 0..MaxOver}
    \cup {RawPng(RAW_IMAGE_TYPE, MAX_BYTE_VALUE + d, 1,
                 [k \in 1..(MAX_BYTE_VALUE + d) |-> <<9, 8, 7, 6>>]) : d \in 0..MaxOver}

(***************************************************************************)
(* The HIPImage object and its four methods.                               *)
(***************************************************************************)
NoStages == [read_palette_header |-> FALSE, parsed_palette |-> FALSE, decoded |-> FALSE]

Outcome(op, err, stages) ==
    [op |-> op, err |-> err, read_palette_header |-> stages.read_palette_header,
     parsed_palette |-> stages.parsed_palette, decoded |-> stages.decoded]

Init ==
    /\ image_size = <<0, 0>>
    /\ image = <<>>
    /\ palette = <<>>
    /\ alpha = <<>>
    /\ hip_in = <<>>
    /\ hip_out = <<>>
    /\ png_out = <<>>
    /\ result = Outcome("init", "", NoStages)
    /\ src = <<>>
    /\ loaded = FALSE

\* _load_hip and _load_png of every input, evaluated once
HipLoads == [b \in HipInputs |-> _load_hip(b)]

PngLoads == [p \in PngInputs |-> _load_png(p)]

\* A faulty variant of load_hip that empties the container before it parses
LoadHipClearFirst(b) ==
    LET r == HipLoads[b]
    IN  /\ hip_in' = b
        /\ hip_out' = <<>>
        /\ png_out' = <<>>
        /\ result' = Outcome("load_hip", r.err, r)
        /\ image_size' = r.image_size
        /\ image' = r.image
        /\ palette' = r.palette
        /\ alpha' = r.alpha
        /\ IF r.err = "" THEN src' = b /\ loaded' = TRUE ELSE UNCHANGED <<src, loaded>>

\* HIPImage.load_hip(io.BytesIO(b)): the four fields are assigned together, and
\* only when _load_hip returns
LoadHip(b) ==
    LET r == HipLoads[b]
    IN  /\ hip_in' = b
        /\ hip_out' = <<>>
        /\ png_out' = <<>>
        /\ result' = Outcome("load_hip", r.err, r)
        /\ IF r.err = ""
           THEN /\ image_size' = r.image_size
                /\ image' = r.image
                /\ palette' = r.palette
                /\ alpha' = r.alpha
                /\ src' = b
                /\ loaded' = TRUE
           ELSE UNCHANGED <<image_size, image, palette, alpha, src, loaded>>

\* HIPImage.load_png(png_input)
LoadPng(p) ==
    LET r == PngLoads[p]
    IN  /\ hip_in' = <<>>
        /\ hip_out' = <<>>
        /\ png_out' = <<>>
        /\ result' = Outcome("load_png", r.err, NoStages)
        /\ IF r.err = ""
           THEN /\ image_size' = r.image_size
                /\ image' = r.image
                /\ palette' = r.palette
                /\ alpha' = r.alpha
                /\ src' = <<>>
                /\ loaded' = TRUE
           ELSE UNCHANGED <<image_size, image, palette, alpha, src, loaded>>

\* HIPImage.save_hip(io.BytesIO()): hip_out is what the call wrote
SaveHip ==
    LET r == save_hip(image_size, image, palette, alpha)
    IN  /\ hip_out' = r.written
        /\ png_out' = <<>>
        /\ hip_in' = <<>>
        /\ result' = Outcome("save_hip", r.err, NoStages)
        /\ UNCHANGED <<image_size, image, palette, alpha, src, loaded>>

\* HIPImage.save_png(io.BytesIO()): png_out is the image handed to Pillow
SavePng ==
    LET r == save_png(image_size, image, palette, alpha)
    IN  /\ png_out' = r.written
        /\ hip_out' = <<>>
        /\ hip_in' = <<>>
        /\ result' = Outcome("save_png", r.err, NoStages)
        /\ UNCHANGED <<image_size, image, palette, alpha, src, loaded>>

\* HIPImage.load_hip(out) on the io.BytesIO that the last save_hip wrote
ReloadHip ==
    /\ hip_out # <<>>
    /\ LET r == _load_hip(hip_out)
       IN  /\ hip_in' = hip_out
           /\ hip_out' = <<>>
           /\ png_out' = <<>>
           /\ result' = Outcome("load_hip", r.err, r)
           /\ IF r.err = ""
              THEN /\ image_size' = r.image_size
                   /\ image' = r.image
                   /\ palette' = r.palette
                   /\ alpha' = r.alpha
                   /\ src' = hip_out
                   /\ loaded' = TRUE
              ELSE UNCHANGED <<image_size, image, palette, alpha, src, loaded>>

\* Direct-color pixel buffers of 1 .. MaxAssigned bytes occur among the containers
\* whose fields the caller assigned
MaxAssigned == 7

\* Containers whose public fields the caller assigned instead of loading them:
\* direct-color buffers of any length, a palette of two entries, a palette and an
\* alpha table out of step, one of the two tables alone, tables without pixels
AssignedContainers ==
    {<<<<1, 1>>, [k \in 1..n |-> 10 * k], <<>>, <<>>>> : n \in 1..MaxAssigned}
    \cup {<<<<1, 1>>, <<0>>, SubSeq(LogicalPalette(0), 1, 2 * RAW_RGB_SIZE), <<255, 0>>>>,
          <<<<1, 1>>, <<0>>, LogicalPalette(0), SubSeq(LogicalAlpha(0), 1, HIP_MAX_COLORS - 1)>>,
          <<<<1, 1>>, <<0>>, SubSeq(LogicalPalette(0), 1, (HIP_MAX_COLORS - 1) * RAW_RGB_SIZE),
            LogicalAlpha(0)>>,
          <<<<1, 1>>, <<0>>, LogicalPalette(0), <<>>>>,
          <<<<1, 1>>, <<0>>, <<>>, LogicalAlpha(0)>>,
          <<<<1, 1>>, <<>>, LogicalPalette(0), LogicalAlpha(0)>>,
          <<<<2, 1>>, <<0, 1>>, LogicalPalette(1), LogicalAlpha(1)>>}

\* A HIPImage right after construction or after the caller assigned its fields
InitAssigned ==
    /\ \E c \in AssignedContainers \cup {<<<<0, 0>>, <<>>, <<>>, <<>>>>} :
          /\ image_size = c[1]
          /\ image = c[2]
          /\ palette = c[3]
          /\ alpha = c[4]
    /\ hip_in = <<>>
    /\ hip_out = <<>>
    /\ png_out = <<>>
    /\ result = Outcome("init", "", NoStages)
    /\ src = <<>>
    /\ loaded = FALSE

Next ==
    \/ \E b \in HipInputs : LoadHip(b)
    \/ \E p \in PngInputs : LoadPng(p)
    \/ SaveHip
    \/ SavePng
    \/ ReloadHip

Spec == Init /\ [][Next]_vars
\* The same operations on a container that the caller may have filled by hand
SpecAssigned == InitAssigned /\ [][Next]_vars
(***************************************************************************)
(* Reading a HIP byte string field by field, as section 6 of the           *)
(* specification lays the file out.                                        *)
(***************************************************************************)
\* The 32-bit word at byte offset 4 * k
Field(b, k) == unpack_u32(SubSeq(b, 4 * k + 1, 4 * k + 4))

FileSizeField(b) == Field(b, 2)

NumColorsField(b) == Field(b, 3)

\* The offset at which the chunks of an accepted file start
ChunkOffset(b) ==
    IF NumColorsField(b) = 0 THEN Len(HIP_PREFIX) + HEADER_SIZE
    ELSE Len(HIP_PREFIX) + HEADER_SIZE + PALETTE_HEADER_SIZE + 4 * NumColorsField(b)

ChunkStream(b) == Slice(b, ChunkOffset(b), Len(b))

ChunkSizeOf(b) ==
    IF NumColorsField(b) = 0 THEN HIP_RAW_IMG_CHUNK_SIZE ELSE HIP_PAL_IMG_CHUNK_SIZE

\* The dimensions the header of an accepted file gives
WidthOf(b) == IF NumColorsField(b) = 0 THEN Field(b, 4) ELSE Field(b, 8)

HeightOf(b) == IF NumColorsField(b) = 0 THEN Field(b, 5) ELSE Field(b, 9)

\* The chunks of a stream c of size-byte chunks: how many are complete, and the
\* key (1-based chunk k) and the count of each
NumChunks(c, size) == Len(c) \div size

ChunkKey(c, size, k) == SubSeq(c, size * (k - 1) + 1, size * k - 1)

ChunkCount(c, size, k) == c[size * k]

\* The pixels that the first k chunks stand for
RECURSIVE RunSum(_, _, _)
RunSum(c, size, k) == IF k = 0 THEN 0 ELSE RunSum(c, size, k - 1) + ChunkCount(c, size, k)

\* The stream is what a greedy run-length encoder emits: whole chunks, every
\* count in 1..255, and two neighbours share a key only when the first is full
CanonicalChunks(c, size) ==
    /\ Len(c) % size = 0
    /\ \A k \in 1..NumChunks(c, size) :
          /\ ChunkCount(c, size, k) \in 1..MAX_BYTE_VALUE
          /\ k < NumChunks(c, size) /\ ChunkKey(c, size, k) = ChunkKey(c, size, k + 1)
                => ChunkCount(c, size, k) = MAX_BYTE_VALUE

\* An accepted file whose header holds the values _build_header writes and
\* whose chunks are canonical
WriterForm(b) ==
    /\ Field(b, 1) = UNKNOWN_00
    /\ NumColorsField(b) \in {0, HIP_MAX_COLORS}
    /\ Field(b, 7) = NumColorsField(b) \div BITS_PER_COLOR_CHANNEL
    /\ IF NumColorsField(b) = 0
       THEN Field(b, 6) = UNKNOWN_05_RAW
       ELSE /\ Field(b, 4) = 0 /\ Field(b, 5) = 0 /\ Field(b, 6) = 0
            /\ \A k \in 10..15 : Field(b, k) = 0
    /\ CanonicalChunks(ChunkStream(b), ChunkSizeOf(b))

(***************************************************************************)
(* Properties.                                                             *)
(***************************************************************************)
\* The last call was a save_hip of a container that the last successful load
\* took from the HIP bytes src, and that holds at least one pixel
SavedAfterLoadHip == result.op = "save_hip" /\ src # <<>> /\ image # <<>>

\* C1, as stated: every byte string that load_hip accepts and that decodes to at
\* least one pixel is written back byte for byte by save_hip.
C1_RoundTripOfEveryAcceptedFile ==
    SavedAfterLoadHip => result.err = "" /\ hip_out = src

\* C1, amended: an accepted byte string with at least one pixel that is in the
\* form save_hip itself writes (unknownA = 0x125, numColors 0 or 256, unknownB
\* 0x110 for direct color and 0 for indexed, colorDepth = numColors / 8, zero base
\* width/height and zero reserved words for indexed, canonical chunks) is written
\* back byte for byte.
C1_RoundTripOfWriterForm ==
    SavedAfterLoadHip /\ WriterForm(src) => result.err = "" /\ hip_out = src

\* An indexed file with a run of more than 255 pixels came back unchanged
C1_Witness ==
    /\ SavedAfterLoadHip /\ WriterForm(src)
    /\ NumColorsField(src) = HIP_MAX_COLORS
    /\ Len(image) > MAX_BYTE_VALUE
    /\ hip_out = src

\* The last call was a load_hip of bytes that hold a complete base header
LoadedWithHeader == result.op = "load_hip" /\ Len(hip_in) >= Len(HIP_PREFIX) + HEADER_SIZE

\* C2: load_hip rejects every numColors other than 0 and 256 with ValueError,
\* before the palette sub-header, the palette or a pixel chunk is read.
C2_RejectsOtherColorCounts ==
    LoadedWithHeader /\ NumColorsField(hip_in) \notin {0, HIP_MAX_COLORS}
        => /\ result.err = "ValueError"
           /\ ~result.read_palette_header
           /\ ~result.parsed_palette
           /\ ~result.decoded

\* C3: a load_hip of bytes whose fileSize field differs from their length fails
\* with ValueError, parses no palette, decodes no pixel and leaves the four fields
\* of the container as they were.
C3_SizeMismatchIsFormatError ==
    [][(/\ result'.op = "load_hip"
        /\ Len(hip_in') >= 3 * INT_SIZE
        /\ FileSizeField(hip_in') # Len(hip_in'))
        => /\ result'.err = "ValueError"
           /\ ~result'.parsed_palette
           /\ ~result'.decoded
           /\ UNCHANGED container]_vars

\* C4: when the run counts of the chunk stream handed to a pixel decoder do not
\* add up to width * height, decoding fails with ValueError; it succeeds only
\* when they do.
C4_PixelCountMismatchIsFormatError ==
    result.op = "load_hip" /\ result.decoded
        => LET c == ChunkStream(hip_in)
               size == ChunkSizeOf(hip_in)
               total == RunSum(c, size, NumChunks(c, size))
           IN  /\ total # WidthOf(hip_in) * HeightOf(hip_in) => result.err = "ValueError"
               /\ result.err = "" => total = WidthOf(hip_in) * HeightOf(hip_in)

\* C5: on a container that no load has filled yet, save_hip and save_png fail
\* with ValueError, write nothing and leave the container as it was constructed.
C5_SaveBeforeLoadFails ==
    ~loaded /\ result.op \in {"save_hip", "save_png"}
        => /\ result.err = "ValueError"
           /\ hip_out = <<>>
           /\ png_out = <<>>
           /\ container = <<<<0, 0>>, <<>>, <<>>, <<>>>>

\* A save_png came after nothing but failed calls
C5_Witness ==
    ~loaded /\ result.op = "save_png" /\ result.err = "ValueError" /\ png_out = <<>>

\* The last call was a save_hip on a container with a non-empty pixel buffer
SavedPixels == result.op = "save_hip" /\ image # <<>>

\* What was written is an indexed file: numColors 256, the sub-header, a
\* 1024-byte palette and 2-byte chunks
IndexedOutput(o) ==
    /\ Len(o) >= Len(HIP_PREFIX) + HEADER_SIZE + PALETTE_HEADER_SIZE + 4 * HIP_MAX_COLORS
    /\ NumColorsField(o) = HIP_MAX_COLORS
    /\ (Len(o) - ChunkOffset(o)) % HIP_PAL_IMG_CHUNK_SIZE = 0

\* What was written is a direct-color file: numColors 0 and 5-byte chunks
DirectOutput(o) ==
    /\ Len(o) >= Len(HIP_PREFIX) + HEADER_SIZE
    /\ NumColorsField(o) = 0
    /\ (Len(o) - ChunkOffset(o)) % HIP_RAW_IMG_CHUNK_SIZE = 0

C7_LoadHipKeepsPaletteAndAlphaPaired ==
    src # <<>> \/ ~loaded
        => /\ (palette = <<>>) <=> (alpha = <<>>)
           /\ Len(palette) * RAW_A_SIZE = Len(alpha) * RAW_RGB_SIZE

\* A load_hip accepted a palette cut to two entries
C7_Witness ==
    /\ result.op = "load_hip" /\ result.err = "" /\ src = hip_in
    /\ Len(palette) = 2 * RAW_RGB_SIZE /\ Len(alpha) = 2 * RAW_A_SIZE

\* The last call was a save_hip that wrote a file
SavedHip == result.op = "save_hip" /\ result.err = ""

\* Pixel i (1-based) of the container, as the key of the chunk that stands for
\* it: the stored index 255 - logicalIndex, or the colour as B,G,R,A
PixelKey(i) ==
    IF palette # <<>> THEN <<MAX_BYTE_VALUE - image[i]>>
    ELSE <<image[4 * i - 1], image[4 * i - 2], image[4 * i - 3], image[4 * i]>>

NumPixels == IF palette # <<>> THEN Len(image) ELSE Len(image) \div (RAW_RGB_SIZE + RAW_A_SIZE)

\* C8: what save_hip emits is the greedy run-length encoding of the pixel buffer:
\* every count is in 1..255, the chunks stand for the pixels in scan order, two
\* neighbouring chunks share a key only when the first has count 255 (so a maximal
\* run of L pixels takes ceil(L/255) chunks, all full but the last, and 256 pixels
\* give 255 then 1), and [0,0,1,1] is emitted as (255,2),(254,2).
C8_GreedyRunLengthEncoding ==
    SavedHip
        => LET c == ChunkStream(hip_out)
               size == ChunkSizeOf(hip_out)
               n == NumChunks(c, size)
           IN  /\ CanonicalChunks(c, size)
               /\ RunSum(c, size, n) = NumPixels
               /\ \A k \in 1..n :
                     \A i \in (RunSum(c, size, k - 1) + 1)..RunSum(c, size, k) :
                         PixelKey(i) = ChunkKey(c, size, k)
               /\ (\A i \in 1..NumPixels : PixelKey(i) = PixelKey(1))
                     => n = (NumPixels + MAX_BYTE_VALUE - 1) \div MAX_BYTE_VALUE
               /\ palette # <<>> /\ image = <<0, 0, 1, 1>> => c = <<255, 2, 254, 2>>

\* An indexed image of exactly 256 identical pixels was saved as 255 then 1
C8_Witness ==
    /\ SavedHip /\ palette # <<>> /\ Len(image) = MAX_BYTE_VALUE + 1
    /\ \A i \in 1..Len(image) : image[i] = image[1]
    /\ ChunkStream(hip_out)
          = <<MAX_BYTE_VALUE - image[1], MAX_BYTE_VALUE, MAX_BYTE_VALUE - image[1], 1>>

\* The bytes hold an indexed file with its whole 1024-byte palette
FullPalette(b) ==
    /\ Len(b) >= Len(HIP_PREFIX) + HEADER_SIZE + PALETTE_HEADER_SIZE + 4 * HIP_MAX_COLORS
    /\ NumColorsField(b) = HIP_MAX_COLORS

\* The on-disk palette of such bytes, and byte j (0..3: B,G,R,A) of its entry i
DiskPalette(b) ==
    SubSeq(b, Len(HIP_PREFIX) + HEADER_SIZE + PALETTE_HEADER_SIZE + 1,
           Len(HIP_PREFIX) + HEADER_SIZE + PALETTE_HEADER_SIZE + 4 * HIP_MAX_COLORS)

DiskEntry(b, i, j) == DiskPalette(b)[4 * i + j + 1]

\* C9: load_hip decodes disk entry i of a 1024-byte palette into logical entry
\* 255 - i, colour as R,G,B and alpha apart; building the on-disk palette from
\* the decoded tables gives the 1024 bytes back, and so does save_hip.
C9_PaletteInvolution ==
    /\ result.op = "load_hip" /\ result.err = "" /\ FullPalette(hip_in)
          => /\ Len(palette) = HIP_MAX_COLORS * RAW_RGB_SIZE
             /\ Len(alpha) = HIP_MAX_COLORS
             /\ \A i \in 0..(HIP_MAX_COLORS - 1) :
                   /\ SubSeq(palette, 3 * (MAX_BYTE_VALUE - i) + 1, 3 * (MAX_BYTE_VALUE - i) + 3)
                         = <<DiskEntry(hip_in, i, 2), DiskEntry(hip_in, i, 1),
                             DiskEntry(hip_in, i, 0)>>
                   /\ alpha[MAX_BYTE_VALUE - i + 1] = DiskEntry(hip_in, i, 3)
             /\ _build_palette(palette, alpha) = [err |-> "", data |-> DiskPalette(hip_in)]
    /\ SavedHip /\ src # <<>> /\ FullPalette(src)
          => FullPalette(hip_out) /\ DiskPalette(hip_out) = DiskPalette(src)

\* The second palette blob was decoded
C9_Witness ==
    /\ result.op = "load_hip" /\ result.err = "" /\ FullPalette(hip_in)
    /\ DiskPalette(hip_in) = PaletteBlob(1)
    /\ alpha[1] = PaletteBlob(1)[4 * HIP_MAX_COLORS]

\* C10: the file that a successful save_hip writes holds its own length at
\* offset 8, so that _parse_header accepts it; unknownA is 0x125, colorDepth is
\* numColors / 8, numColors is 256 for a container with a palette and 0 without;
\* an indexed file has zero base width and height and the dimensions in the
\* sub-header, a direct-color file has them in the base header.
C10_WrittenHeaderIsConsistent ==
    SavedHip
        => /\ FileSizeField(hip_out) = Len(hip_out)
           /\ Len(hip_out) = ChunkOffset(hip_out) + Len(ChunkStream(hip_out))
           /\ _parse_header(hip_out).err = ""
           /\ Field(hip_out, 1) = UNKNOWN_00
           /\ Field(hip_out, 7) = NumColorsField(hip_out) \div BITS_PER_COLOR_CHANNEL
           /\ IF palette # <<>>
              THEN /\ NumColorsField(hip_out) = HIP_MAX_COLORS
                   /\ Field(hip_out, 4) = 0 /\ Field(hip_out, 5) = 0
                   /\ <<Field(hip_out, 8), Field(hip_out, 9)>> = image_size
                   /\ Len(hip_out) = Len(HIP_PREFIX) + HEADER_SIZE + PALETTE_HEADER_SIZE
                                     + 4 * HIP_MAX_COLORS + Len(ChunkStream(hip_out))
              ELSE /\ NumColorsField(hip_out) = 0
                   /\ <<Field(hip_out, 4), Field(hip_out, 5)>> = image_size

\* An indexed file of 1094 bytes was written
C10_Witness ==
    /\ SavedHip /\ palette # <<>>
    /\ FileSizeField(hip_out)
          = Len(HIP_PREFIX) + HEADER_SIZE + PALETTE_HEADER_SIZE + 4 * HIP_MAX_COLORS
            + 3 * HIP_PAL_IMG_CHUNK_SIZE

\* The container is consistent and holds at least one pixel: width * height
\* indices with a 768-byte palette and a 256-byte alpha table, or width * height
\* R,G,B,A quadruples with no palette and no alpha table
ConsistentContainer ==
    /\ image # <<>>
    /\ \/ /\ Len(palette) = HIP_MAX_COLORS * RAW_RGB_SIZE
          /\ Len(alpha) = HIP_MAX_COLORS * RAW_A_SIZE
          /\ Len(image) = image_size[1] * image_size[2]
       \/ /\ palette = <<>> /\ alpha = <<>>
          /\ Len(image) = (RAW_RGB_SIZE + RAW_A_SIZE) * image_size[1] * image_size[2]

\* C11: on a consistent container with at least one pixel save_hip succeeds, and
\* a load_hip of the bytes it wrote succeeds and leaves the dimensions, the pixel
\* buffer, the palette and the alpha table as they were.
C11_EncodeThenDecodeIsLossless ==
    [][/\ result'.op = "save_hip" /\ ConsistentContainer => result'.err = "" /\ hip_out' # <<>>
       /\ SavedHip /\ ConsistentContainer /\ result'.op = "load_hip" /\ hip_in' = hip_out
             => result'.err = "" /\ container' = container]_vars

\* A file written from a PNG-loaded indexed image with a run of more than 255
\* pixels was loaded back
C11_Witness ==
    /\ result.op = "load_hip" /\ result.err = "" /\ src = hip_in
    /\ hip_in \notin HipInputs
    /\ is_palette_image
    /\ Len(image) > MAX_BYTE_VALUE
    /\ palette = LogicalPalette(0)

\* C12: a save_hip that fails (empty pixel buffer, exactly one of palette and
\* alpha, a palette that is not 256 entries, palette and alpha out of step, a
\* direct-color buffer that is not a whole number of 4-byte pixels) has written
\* nothing; what a save_hip writes is the whole file.
C12_FailedSaveWritesNothing ==
    result.op = "save_hip"
        => /\ result.err # "" => hip_out = <<>>
           /\ hip_out # <<>> => result.err = "" /\ Len(hip_out) = FileSizeField(hip_out)
           /\ \/ image = <<>>
              \/ (palette = <<>>) # (alpha = <<>>)
              \/ is_palette_image
                 /\ \/ Len(palette) # HIP_MAX_COLORS * RAW_RGB_SIZE
                    \/ Len(alpha) # HIP_MAX_COLORS * RAW_A_SIZE
              \/ ~is_palette_image /\ Len(image) % (RAW_RGB_SIZE + RAW_A_SIZE) # 0
              => result.err # ""

\* A save_hip of a direct-color buffer with a pixel cut short failed and wrote nothing
C12_Witness ==
    /\ result.op = "save_hip" /\ result.err = "ValueError" /\ hip_out = <<>>
    /\ palette = <<>> /\ alpha = <<>>
    /\ Len(image) > RAW_RGB_SIZE + RAW_A_SIZE
    /\ Len(image) % (RAW_RGB_SIZE + RAW_A_SIZE) # 0

\* C13: a load_hip that fails leaves image_size, image, palette and alpha as they
\* were, so that a save_hip right after it still writes the image loaded before;
\* a load_hip that succeeds sets all four from the file: the dimensions of its
\* header, one index or four bytes per pixel, the tables of its palette, and for
\* a direct-color file no palette and no alpha table, whatever the container
\* held before, so that is_palette_image() is false.
C13_LoadHipIsAtomic ==
    [][/\ result'.op = "load_hip" /\ result'.err # "" => UNCHANGED container
       /\ result'.op = "load_hip" /\ result'.err = ""
             => /\ image_size' = <<WidthOf(hip_in'), HeightOf(hip_in')>>
                /\ IF NumColorsField(hip_in') = 0
                   THEN /\ palette' = <<>> /\ alpha' = <<>>
                        /\ ~is_palette_image'
                        /\ Len(image') = (RAW_RGB_SIZE + RAW_A_SIZE)
                                         * WidthOf(hip_in') * HeightOf(hip_in')
                   ELSE /\ Len(palette') = RAW_RGB_SIZE * Len(alpha')
                        /\ Len(alpha') <= NumColorsField(hip_in')
                        /\ FullPalette(hip_in')
                              => /\ is_palette_image'
                                 /\ Len(alpha') = HIP_MAX_COLORS
                                 /\ alpha'[1] = DiskEntry(hip_in', MAX_BYTE_VALUE, 3)
                                 /\ SubSeq(palette', 1, RAW_RGB_SIZE)
                                       = <<DiskEntry(hip_in', MAX_BYTE_VALUE, 2),
                                           DiskEntry(hip_in', MAX_BYTE_VALUE, 1),
                                           DiskEntry(hip_in', MAX_BYTE_VALUE, 0)>>
                        /\ Len(image') = WidthOf(hip_in') * HeightOf(hip_in')
       /\ (/\ result.op = "load_hip" /\ result.err # "" /\ result'.op = "save_hip"
           /\ src # <<>> /\ WriterForm(src) /\ image # <<>>)
             => hip_out' = src]_vars

\* A load_hip failed on a container that holds an indexed image loaded before,
\* and the image is still there
C13_Witness ==
    /\ result.op = "load_hip" /\ result.err # ""
    /\ src # <<>> /\ src # hip_in
    /\ is_palette_image
    /\ Len(image) = WidthOf(src) * HeightOf(src)
    /\ Len(image) > 1

====
